---- MODULE Spec2Model ----
(***************************************************************************)
(* A model of the Control4 integration: the config-entry lifecycle         *)
(* (async_setup_entry, update_listener, async_unload_entry), the helper    *)
(* get_items_of_category, the light and alarm-panel platforms with their   *)
(* update coordinators, and the user config flow.                          *)
(*                                                                         *)
(* Python dicts are functions whose DOMAIN is the set of keys present, so  *)
(* that "no key", "an empty dict" and "a full dict" are different values.  *)
(* Every handler is one action; the vendor SDK's and the host's replies    *)
(* are the action's inputs.  update_listener awaits two handlers in turn   *)
(* and is a task of two steps.                                             *)
(***************************************************************************)
EXTENDS Integers, Sequences, FiniteSets, TLC

VARIABLES
    hassData,      \* hass.data[DOMAIN]: entry_id -> entry_data dict
    options,       \* entry.options of every config entry
    entryState,    \* the host's state of every config entry
    listeners,     \* entry.update_listeners: registrations per entry
    devices,       \* device registry: identifiers registered
    nextId,        \* identity of the next C4Account / C4Director / registration
    ul,            \* position of the running update_listener task per entry
    last,          \* the most recent lifecycle handler call and how it ended
    coord,         \* the platforms' DataUpdateCoordinators
    lights,        \* the Control4Light entities, in the order they were added
    alarms,        \* the Control4AlarmControlPanel entities
    call,          \* the most recent platform, entity or helper call
    flow,          \* the user config flow: its last result
    entries        \* the config entries the flow has created

lifeVars == <<hassData, options, entryState, listeners, devices, nextId, ul, last>>
platVars == <<coord, lights, alarms, call>>
flowVars == <<flow, entries>>

-----------------------------------------------------------------------------
(* Bounds *)

\* how many times async_setup_entry may be entered in one behaviour
MaxSetups == 3

\* how many times the stored director may be replaced while the platforms'
\* entities exist
MaxReplacements == 1

\* the longest item list of the specification of get_items_of_category
MaxItems == 3

\* how many config entries the config flow may create
MaxEntries == 2

-----------------------------------------------------------------------------
(* Constants of the integration *)

PLATFORMS == <<"light">>

CONF_ACCOUNT == "account"
CONF_CONFIG_LISTENER == "config_listener"
CONF_CONTROLLER_NAME == "controller_name"
CONF_DIRECTOR == "director"
CONF_DIRECTOR_ALL_ITEMS == "director_all_items"
CONF_DIRECTOR_MODEL == "director_model"
CONF_DIRECTOR_SW_VERSION == "director_sw_version"
CONF_DIRECTOR_TOKEN_EXPIRATION == "director_token_expiration"
CONF_SCAN_INTERVAL == "scan_interval"
CONF_LIGHT_TRANSITION_TIME == "light_transition_time"
CONF_LIGHT_COLD_START_TRANSITION_TIME == "light_cold_start_transition_time"

DEFAULT_SCAN_INTERVAL == 5
DEFAULT_LIGHT_TRANSITION_TIME == 1
DEFAULT_LIGHT_COLD_START_TRANSITION_TIME == 3

-----------------------------------------------------------------------------
(* Dicts *)

EmptyDict == << >>

HasKey(d, k) == k \in DOMAIN d

\* d[k] = v
Put(d, k, v) == (k :> v) @@ d

\* d.pop(k)
Pop(d, k) == [x \in (DOMAIN d) \ {k} |-> d[x]]

\* d.get(k, default)
Get(d, k, default) == IF k \in DOMAIN d THEN d[k] ELSE default

-----------------------------------------------------------------------------
(* The world the integration runs in *)

Entries == {"e1", "e2"}

\* config[CONF_CONTROLLER_NAME] of an entry, "control4_<model>_<mac>"
ControllerName(e) == IF e = "e1" THEN "control4_ea5_00AA" ELSE "control4_hc800_00BB"

\* model.upper() of the middle part of the controller name
ControllerModel(e) == IF e = "e1" THEN "EA5" ELSE "HC800"

\* the option dicts the host may store for an entry; the second entry is a
\* bystander that keeps its options
OptionChoices(e) ==
    IF e = "e1" THEN
        { EmptyDict,
          (CONF_SCAN_INTERVAL :> 10),
          (CONF_LIGHT_TRANSITION_TIME :> 0) @@ (CONF_LIGHT_COLD_START_TRANSITION_TIME :> 2),
          (CONF_SCAN_INTERVAL :> 10) @@ (CONF_LIGHT_TRANSITION_TIME :> 2)
              @@ (CONF_LIGHT_COLD_START_TRANSITION_TIME :> 0) }
    ELSE { (CONF_LIGHT_TRANSITION_TIME :> 2) }

\* where an awaited vendor call of async_setup_entry may raise; the vendor
\* calls of the second entry fail at the account token only
SetupFailPoints(e) ==
    IF e = "e1" THEN {"none", "account_token", "director_token", "all_items"}
    ELSE {"none", "account_token"}

\* what async_forward_entry_unload may return for each platform
UnloadResults == [{PLATFORMS[i] : i \in 1..Len(PLATFORMS)} -> BOOLEAN]

\* the item list the director reports in the lifecycle specification
NoItems == << >>

-----------------------------------------------------------------------------
(* The handlers as functions of the integration's state                    *)
(* S = [data, listeners, devices, nextId]                                  *)

Now == [data |-> hassData, listeners |-> listeners, devices |-> devices,
        nextId |-> nextId]

\* lines 104-112 with a wrong default for the light transition time
LoadOptionsWrongDefault(d, opts) ==
    Put(Put(Put(d,
        CONF_SCAN_INTERVAL, Get(opts, CONF_SCAN_INTERVAL, DEFAULT_SCAN_INTERVAL)),
        CONF_LIGHT_TRANSITION_TIME,
            Get(opts, CONF_LIGHT_TRANSITION_TIME, DEFAULT_LIGHT_COLD_START_TRANSITION_TIME)),
        CONF_LIGHT_COLD_START_TRANSITION_TIME,
            Get(opts, CONF_LIGHT_COLD_START_TRANSITION_TIME,
                DEFAULT_LIGHT_COLD_START_TRANSITION_TIME))

\* "Load options from config entry"
LoadOptions(d, opts) ==
    Put(Put(Put(d,
        CONF_SCAN_INTERVAL, Get(opts, CONF_SCAN_INTERVAL, DEFAULT_SCAN_INTERVAL)),
        CONF_LIGHT_TRANSITION_TIME,
            Get(opts, CONF_LIGHT_TRANSITION_TIME, DEFAULT_LIGHT_TRANSITION_TIME)),
        CONF_LIGHT_COLD_START_TRANSITION_TIME,
            Get(opts, CONF_LIGHT_COLD_START_TRANSITION_TIME,
                DEFAULT_LIGHT_COLD_START_TRANSITION_TIME))

\* the except branch, had the account been stored before the token was fetched
OnAccountTokenErrorStoresAccount(S, e, d0) ==
    [S EXCEPT !.nextId = S.nextId + 1,
              !.data = Put(S.data, e, Put(d0, CONF_ACCOUNT, S.nextId))]
        @@ [outcome |-> "PlatformNotReady", removers |-> 0, forwards |-> 0]

\* except client_exceptions.ClientError: raise PlatformNotReady(); d0 is the
\* dict setdefault returned, already stored in hass.data[DOMAIN]
OnAccountTokenError(S, e, d0) ==
    [S EXCEPT !.nextId = S.nextId + 1, !.data = Put(S.data, e, d0)]
        @@ [outcome |-> "PlatformNotReady", removers |-> 0, forwards |-> 0]

\* async_setup_entry(hass, entry); `fail` is the awaited vendor call that
\* raises, `items` what director.getAllItemInfo() reports
SetupEntry(S, e, opts, items, fail) ==
    LET id == S.nextId
        \* entry_data = hass.data[DOMAIN].setdefault(entry.entry_id, {})
        d0 == IF HasKey(S.data, e) THEN S.data[e] ELSE EmptyDict
        \* account stored, controller name stored
        d1 == Put(Put(d0, CONF_ACCOUNT, id), CONF_CONTROLLER_NAME, ControllerName(e))
        \* director, token expiration, software version, model
        d2 == Put(Put(Put(Put(d1,
                  CONF_DIRECTOR, id),
                  CONF_DIRECTOR_TOKEN_EXPIRATION, id),
                  CONF_DIRECTOR_SW_VERSION, "sw"),
                  CONF_DIRECTOR_MODEL, ControllerModel(e))
        d3 == LoadOptions(Put(d2, CONF_DIRECTOR_ALL_ITEMS, items), opts)
        d4 == Put(d3, CONF_CONFIG_LISTENER, id)
        S1 == [S EXCEPT !.nextId = id + 1]
    IN  IF fail = "account_token" THEN
            OnAccountTokenError(S, e, d0)
        ELSE IF fail = "director_token" THEN
            [S1 EXCEPT !.data = Put(S.data, e, d1)]
                @@ [outcome |-> "VendorError", removers |-> 0, forwards |-> 0]
        ELSE IF fail = "all_items" THEN
            [S1 EXCEPT !.data = Put(S.data, e, d2),
                       !.devices = S.devices \cup {ControllerName(e)}]
                @@ [outcome |-> "VendorError", removers |-> 0, forwards |-> 0]
        ELSE
            [S1 EXCEPT !.data = Put(S.data, e, d4),
                       !.devices = S.devices \cup {ControllerName(e)},
                       !.listeners = [S.listeners EXCEPT ![e] = @ \cup {id}]]
                @@ [outcome |-> "True", removers |-> 0, forwards |-> Len(PLATFORMS)]

\* unload_ok = all(await asyncio.gather(...))
UnloadOk(results) == \A i \in 1..Len(PLATFORMS) : results[PLATFORMS[i]]

\* async_unload_entry that removes the entry's data whatever the platforms said
UnloadEntryAlwaysPop(S, e, results) ==
    IF ~HasKey(S.data, e) \/ ~HasKey(S.data[e], CONF_CONFIG_LISTENER) THEN
        S @@ [outcome |-> "KeyError", removers |-> 0, forwards |-> 0]
    ELSE
        LET id == S.data[e][CONF_CONFIG_LISTENER]
        IN  [S EXCEPT !.listeners = [S.listeners EXCEPT ![e] = @ \ {id}],
                      !.data = Pop(S.data, e)]
                @@ [outcome |-> IF UnloadOk(results) THEN "True" ELSE "False",
                    removers |-> 1, forwards |-> 0]

\* async_unload_entry(hass, entry); `results` is what the host's unload of
\* each platform returned
UnloadEntry(S, e, results) ==
    IF ~HasKey(S.data, e) \/ ~HasKey(S.data[e], CONF_CONFIG_LISTENER) THEN
        \* hass.data[DOMAIN][entry.entry_id][CONF_CONFIG_LISTENER] raises
        S @@ [outcome |-> "KeyError", removers |-> 0, forwards |-> 0]
    ELSE
        LET id == S.data[e][CONF_CONFIG_LISTENER]
        IN  IF id \notin S.listeners[e] THEN
                \* the remover of a registration that is gone: list.remove raises
                S @@ [outcome |-> "ValueError", removers |-> 1, forwards |-> 0]
            ELSE
                LET S1 == [S EXCEPT !.listeners = [S.listeners EXCEPT ![e] = @ \ {id}]]
                IN  IF UnloadOk(results) THEN
                        [S1 EXCEPT !.data = Pop(S.data, e)]
                            @@ [outcome |-> "True", removers |-> 1, forwards |-> 0]
                    ELSE
                        S1 @@ [outcome |-> "False", removers |-> 1, forwards |-> 0]

\* update_listener awaits these handlers, in this order
UpdateListenerSteps == <<"unload", "setup">>

-----------------------------------------------------------------------------
(* Lifecycle actions *)

Store(R) ==
    /\ hassData' = R.data
    /\ listeners' = R.listeners
    /\ devices' = R.devices
    /\ nextId' = R.nextId

\* the record of a handler call: how it ended, how many listener removers it
\* called and platform setups it forwarded, and whether every platform unload
\* it awaited returned true
Called(op, e, R, ok) ==
    [op |-> op, entry |-> e, outcome |-> R.outcome, removers |-> R.removers,
     forwards |-> R.forwards, platformsOk |-> ok, awaited |-> << >>]

\* the host sets a config entry up
Setup(e, fail) ==
    /\ entryState[e] \in {"not_loaded", "setup_error"}
    /\ nextId <= MaxSetups
    /\ LET R == SetupEntry(Now, e, options[e], NoItems, fail)
       IN  /\ Store(R)
           /\ last' = Called("setup", e, R, TRUE)
           /\ entryState' = [entryState EXCEPT ![e] =
                  IF R.outcome = "True" THEN "loaded" ELSE "setup_error"]
    /\ UNCHANGED <<options, ul, platVars, flowVars>>

\* the host unloads a loaded config entry
Unload(e, results) ==
    /\ entryState[e] = "loaded"
    /\ LET R == UnloadEntry(Now, e, results)
       IN  /\ Store(R)
           /\ last' = Called("unload", e, R, UnloadOk(results))
           /\ entryState' = [entryState EXCEPT ![e] =
                  CASE R.outcome = "True" -> "not_loaded"
                    [] R.outcome = "False" -> "loaded"
                    [] OTHER -> "failed_unload"]
    /\ UNCHANGED <<options, ul, platVars, flowVars>>

\* the host stores new options and starts a task for every registered listener
UpdateOptions(e, opts) ==
    /\ ul[e] = 0
    /\ opts # options[e]
    /\ options' = [options EXCEPT ![e] = opts]
    /\ ul' = [ul EXCEPT ![e] = IF listeners[e] # {} THEN 1 ELSE 0]
    /\ last' = [op |-> "update_options", entry |-> e, outcome |-> "None",
                removers |-> 0, forwards |-> 0, platformsOk |-> TRUE, awaited |-> << >>]
    /\ UNCHANGED <<hassData, entryState, listeners, devices, nextId, platVars, flowVars>>

\* one await of a running update_listener task
UpdateListenerStep(e, results, fail) ==
    /\ ul[e] \in 1..Len(UpdateListenerSteps)
    /\ LET step == UpdateListenerSteps[ul[e]]
           R == IF step = "unload"
                THEN UnloadEntry(Now, e, results)
                ELSE SetupEntry(Now, e, options[e], NoItems, fail)
           raised == R.outcome \notin {"True", "False"}
           finished == ul[e] = Len(UpdateListenerSteps)
       IN  /\ step = "setup" => nextId <= MaxSetups
           /\ Store(R)
           /\ ul' = [ul EXCEPT ![e] = IF raised \/ finished THEN 0 ELSE @ + 1]
           /\ last' = [Called("update_listener", e, R, step = "unload" => UnloadOk(results)) EXCEPT
                         !.outcome = IF raised THEN R.outcome
                                     ELSE IF finished THEN "None"
                                     ELSE "awaiting",
                         !.awaited = SubSeq(UpdateListenerSteps, 1, ul[e])]
    /\ UNCHANGED <<options, entryState, platVars, flowVars>>

LifeInit ==
    /\ hassData = EmptyDict
    /\ options \in [Entries -> UNION {OptionChoices(e) : e \in Entries}]
    /\ \A e \in Entries : options[e] \in OptionChoices(e)
    /\ options["e1"] = EmptyDict
    /\ entryState = [e \in Entries |-> "not_loaded"]
    /\ listeners = [e \in Entries |-> {}]
    /\ devices = {}
    /\ nextId = 1
    /\ ul = [e \in Entries |-> 0]
    /\ last = [op |-> "async_setup", entry |-> "", outcome |-> "True",
               removers |-> 0, forwards |-> 0, platformsOk |-> TRUE, awaited |-> << >>]



-----------------------------------------------------------------------------
(* Items of the director's inventory *)

Item(id, parentId, type, categories, dimmer, control, name, manufacturer, model) ==
    [id |-> id, parentId |-> parentId, type |-> type, categories |-> categories,
     capabilities |-> [dimmer |-> dimmer], control |-> control, name |-> name,
     manufacturer |-> manufacturer, model |-> model]

\* an item whose JSON has no "categories" field
WithoutCategories(item) == Pop(item, "categories")

LightDevice == Item(1, 0, 6, {"lights"}, FALSE, "control4_lights", "Keypad Dimmer", "Control4", "C4-KD120")
DimmerLight == Item(2, 1, 7, {"lights"}, TRUE, "light_v2", "Kitchen", "", "")
SwitchLight == Item(3, 1, 7, {"lights"}, FALSE, "light_v2", "Hall", "", "")
PorchLight == Item(4, 7, 7, {"lights"}, FALSE, "light_v2", "Porch", "", "")
PanelDevice == Item(6, 0, 6, {"security"}, FALSE, "dsc", "DSC Panel", "DSC", "PC1864")
Panel == Item(5, 6, 7, {"security"}, FALSE, "security", "Alarm", "", "")
SwitchDevice == WithoutCategories(Item(7, 0, 6, {}, FALSE, "switch", "Outdoor Switch", "Other", "SW1"))

CONTROL4_ENTITY_TYPE == 7

LIGHTS_CATEGORY == "lights"
SECURITY_CATEGORY == "security"

\* get_items_of_category that also returns the items without a "categories" field
ItemsOfCategoryNoKeyCheck(items, category) ==
    SelectSeq(items, LAMBDA item :
        ~HasKey(item, "categories") \/ category \in item["categories"])

\* the loop of get_items_of_category over director_all_items[i..]
RECURSIVE ItemsOfCategoryFrom(_, _, _, _)
ItemsOfCategoryFrom(items, i, category, return_list) ==
    IF i > Len(items) THEN return_list
    ELSE ItemsOfCategoryFrom(items, i + 1, category,
             IF HasKey(items[i], "categories") /\ category \in items[i]["categories"]
             THEN Append(return_list, items[i])
             ELSE return_list)

\* get_items_of_category, given the cached list hass.data[DOMAIN][entry_id][...]
ItemsOfCategory(items, category) == ItemsOfCategoryFrom(items, 1, category, << >>)

-----------------------------------------------------------------------------
(* Update coordinators *)

CoordinatorNames == {"non_dimmer", "dimmer", "alarm"}

\* a coordinator before it is constructed, and DataUpdateCoordinator(...):
\* data None, last_update_success True
NoCoordinator ==
    [exists |-> FALSE, hasData |-> FALSE, data |-> EmptyDict,
     last_update_success |-> TRUE, lastRefresh |-> "none"]

NewCoordinator == [NoCoordinator EXCEPT !.exists = TRUE]

\* what the director answers to a poll: it raises or reports one level for
\* every light / one reading for every panel
LightFetches == {"C4Exception", "0", "100"}
AlarmFetches == {"C4Exception", "disarmed", "armed_away"}

\* every combination of the three variables of a panel, each 0 or 1
AllAlarmFetches ==
    AlarmFetches \cup {"none_set", "armed_home", "disarmed_home", "disarmed_away",
                       "home_away", "all_set"}

LevelOf(fetch) == IF fetch = "0" THEN 0 ELSE 100

ReadingOf(fetch) ==
    [DISARMED_STATE |->
        IF fetch \in {"disarmed", "disarmed_home", "disarmed_away", "all_set"}
        THEN 1 ELSE 0,
     HOME_STATE |->
        IF fetch \in {"armed_home", "disarmed_home", "home_away", "all_set"}
        THEN 1 ELSE 0,
     AWAY_STATE |->
        IF fetch \in {"armed_away", "disarmed_away", "home_away", "all_set"}
        THEN 1 ELSE 0]

\* director_update_data: the fetched values indexed by item id
DirectorUpdateData(items, fetch) ==
    LET ls == ItemsOfCategory(items, LIGHTS_CATEGORY)
        ids == {ls[i].id : i \in {j \in 1..Len(ls) : ls[j].type = CONTROL4_ENTITY_TYPE}}
    IN  [id \in ids |-> [value |-> LevelOf(fetch)]]

\* director_update_data_multi_variable for the three alarm variables
DirectorUpdateDataMultiVariable(items, fetch) ==
    LET ps == ItemsOfCategory(items, SECURITY_CATEGORY)
        ids == {ps[i].id : i \in {j \in 1..Len(ps) : ps[j].type = CONTROL4_ENTITY_TYPE}}
    IN  [id \in ids |-> ReadingOf(fetch)]

\* an update method that lets the vendor's exception through
UpdateMethodUnwrapped(fetch) ==
    IF fetch = "C4Exception" THEN "C4Exception" ELSE "ok"

\* async_update_data*: try: return await director_update_data(...)
\*                     except C4Exception: raise UpdateFailed(...)
UpdateMethod(fetch) ==
    IF fetch = "C4Exception" THEN "UpdateFailed" ELSE "ok"

\* coordinator.async_refresh() with the given update method result
Refreshed(c, outcome, data) ==
    IF outcome = "ok"
    THEN [c EXCEPT !.hasData = TRUE, !.data = data,
                   !.last_update_success = TRUE, !.lastRefresh = outcome]
    ELSE [c EXCEPT !.last_update_success = FALSE, !.lastRefresh = outcome]

\* Control4Entity.available
Available(entity) == coord[entity.coordinator].last_update_success

-----------------------------------------------------------------------------
(* Entities *)

\* the entry whose platforms are modelled
PlatformEntry == "e1"

EntryData == hassData[PlatformEntry]

\* Control4Entity.__init__(hass, entry, coordinator, name, idx, ...): `hass` is
\* "HomeAssistant" for the host object and "dict" when a dict is passed for it,
\* which has no attribute `data`.  The attributes set are those of lines
\* 176-188; no other attribute exists on the entity.
Control4EntityInit(hass, coordinator, name, idx, device_name, device_manufacturer, device_model, device_id) ==
    IF hass # "HomeAssistant" THEN [raised |-> "AttributeError"]
    ELSE [raised |-> "None",
          entity |->
            [entry |-> PlatformEntry,
             account |-> EntryData[CONF_ACCOUNT],
             director |-> EntryData[CONF_DIRECTOR],
             director_token_expiry |-> EntryData[CONF_DIRECTOR_TOKEN_EXPIRATION],
             name |-> name, idx |-> idx, coordinator |-> coordinator,
             controller_name |-> EntryData[CONF_CONTROLLER_NAME],
             device_name |-> device_name,
             device_manufacturer |-> device_manufacturer,
             device_model |-> device_model, device_id |-> device_id]]

\* Control4Light.__init__
Control4LightInit(coordinator, name, idx, device_name, device_manufacturer, device_model, device_id, is_dimmer, light_transition_time, light_cold_start_transition_time) ==
    Control4EntityInit("HomeAssistant", coordinator, name, idx, device_name,
                       device_manufacturer, device_model, device_id).entity
        @@ [is_dimmer |-> is_dimmer,
            transition_time |-> light_transition_time,
            cold_start_transition_time |-> light_cold_start_transition_time]

\* the local variables item_manufacturer, item_device_name, item_model of a
\* platform's async_setup_entry, unbound until a parent item is found
Unbound == [bound |-> FALSE, manufacturer |-> "", name |-> "", model |-> ""]

\* for parent_item in items_of_category: if parent_item["id"] == item_parent_id
RECURSIVE FindParent(_, _, _, _)
FindParent(items, j, parent_id, locals) ==
    IF j > Len(items) THEN locals
    ELSE FindParent(items, j + 1, parent_id,
             IF items[j].id = parent_id
             THEN [bound |-> TRUE, manufacturer |-> items[j].manufacturer,
                   name |-> items[j].name, model |-> items[j].model]
             ELSE locals)

\* if item_is_dimmer: item_coordinator = dimmer_coordinator, else non-dimmer
LightCoordinator(item_is_dimmer) ==
    IF item_is_dimmer THEN "dimmer" ELSE "non_dimmer"

\* the entity loop of light.async_setup_entry from item i on; acc are the
\* entities added so far
RECURSIVE LightEntitiesFrom(_, _, _, _)
LightEntitiesFrom(items, i, locals, acc) ==
    IF i > Len(items) THEN [entities |-> acc, raised |-> "None"]
    ELSE IF items[i].type # 7 THEN LightEntitiesFrom(items, i + 1, locals, acc)
    ELSE
        LET item == items[i]
            found == FindParent(items, 1, item.parentId, locals)
        IN  IF ~found.bound THEN [entities |-> acc, raised |-> "UnboundLocalError"]
            ELSE LightEntitiesFrom(items, i + 1, found,
                     Append(acc,
                         Control4LightInit(
                             LightCoordinator(item.capabilities.dimmer),
                             item.name, item.id, found.name, found.manufacturer,
                             found.model, item.parentId, item.capabilities.dimmer,
                             EntryData[CONF_LIGHT_TRANSITION_TIME],
                             EntryData[CONF_LIGHT_COLD_START_TRANSITION_TIME])))

\* the entity loop of alarm_control_panel.async_setup_entry, which passes
\* entry_data where Control4Entity.__init__ takes hass
RECURSIVE AlarmEntitiesFrom(_, _, _, _)
AlarmEntitiesFrom(items, i, locals, acc) ==
    IF i > Len(items) THEN [entities |-> acc, raised |-> "None"]
    ELSE IF ~(items[i].type = CONTROL4_ENTITY_TYPE /\ items[i].control = SECURITY_CATEGORY)
    THEN AlarmEntitiesFrom(items, i + 1, locals, acc)
    ELSE
        LET item == items[i]
            found == FindParent(items, 1, item.parentId, locals)
            made == Control4EntityInit("dict", "alarm", item.name, item.id, found.name,
                                       found.manufacturer, found.model, item.parentId)
        IN  IF ~found.bound THEN [entities |-> acc, raised |-> "UnboundLocalError"]
            ELSE IF made.raised # "None" THEN [entities |-> acc, raised |-> made.raised]
            ELSE AlarmEntitiesFrom(items, i + 1, found, Append(acc, made.entity))

\* self._coordinator.data[self._idx][key]
CoordinatorValue(entity, key) ==
    LET c == coord[entity.coordinator]
    IN  IF ~c.hasData THEN [raised |-> "TypeError", value |-> 0]
        ELSE IF ~HasKey(c.data, entity.idx) THEN [raised |-> "KeyError", value |-> 0]
        ELSE [raised |-> "None", value |-> c.data[entity.idx][key]]

\* Control4Light.is_on
IsOn(light) ==
    LET v == CoordinatorValue(light, "value")
    IN  [raised |-> v.raised, value |-> v.value > 0]

\* Control4Light.brightness, in hundredths (value * 2.55 = value * 255 / 100);
\* -1 stands for None
Brightness(light) ==
    IF light.is_dimmer
    THEN LET v == CoordinatorValue(light, "value")
         IN  [raised |-> v.raised, value |-> v.value * 255]
    ELSE [raised |-> "None", value |-> -1]

CONTROL4_DISARMED_VAR == "DISARMED_STATE"
CONTROL4_ARMED_HOME_VAR == "HOME_STATE"
CONTROL4_ARMED_AWAY_VAR == "AWAY_STATE"
STATE_ALARM_DISARMED == "disarmed"
STATE_ALARM_ARMED_HOME == "armed_home"
STATE_ALARM_ARMED_AWAY == "armed_away"

\* the chain with the away variable tested before the home variable
AlarmStateAwayFirst(panel) ==
    LET disarmed == CoordinatorValue(panel, CONTROL4_DISARMED_VAR)
        armed_home == CoordinatorValue(panel, CONTROL4_ARMED_HOME_VAR)
        armed_away == CoordinatorValue(panel, CONTROL4_ARMED_AWAY_VAR)
    IN  IF disarmed.raised # "None" THEN [raised |-> disarmed.raised, value |-> "None"]
        ELSE IF disarmed.value = 1 THEN [raised |-> "None", value |-> STATE_ALARM_DISARMED]
        ELSE IF armed_away.value = 1
             THEN [raised |-> "None", value |-> STATE_ALARM_ARMED_AWAY]
        ELSE IF armed_home.value = 1
             THEN [raised |-> "None", value |-> STATE_ALARM_ARMED_HOME]
        ELSE [raised |-> "None", value |-> "None"]

\* Control4AlarmControlPanel.state: the three variables are read first, then
\* the if / elif chain picks the state; no branch taken returns None
AlarmState(panel) ==
    LET disarmed == CoordinatorValue(panel, CONTROL4_DISARMED_VAR)
        armed_home == CoordinatorValue(panel, CONTROL4_ARMED_HOME_VAR)
        armed_away == CoordinatorValue(panel, CONTROL4_ARMED_AWAY_VAR)
    IN  IF disarmed.raised # "None" THEN [raised |-> disarmed.raised, value |-> "None"]
        ELSE IF disarmed.value = 1 THEN [raised |-> "None", value |-> STATE_ALARM_DISARMED]
        ELSE IF armed_home.value = 1
             THEN [raised |-> "None", value |-> STATE_ALARM_ARMED_HOME]
        ELSE IF armed_away.value = 1
             THEN [raised |-> "None", value |-> STATE_ALARM_ARMED_AWAY]
        ELSE [raised |-> "None", value |-> "None"]

\* Control4AlarmControlPanel.create_api_object:
\* C4SecurityPanel(self.entry_data[CONF_DIRECTOR], self._idx)
CreateApiObject(panel) ==
    IF ~HasKey(panel, "entry_data") THEN [raised |-> "AttributeError", director |-> 0]
    ELSE [raised |-> "None", director |-> panel["entry_data"][CONF_DIRECTOR]]

-----------------------------------------------------------------------------
(* Platform and entity actions *)

\* the record of a platform, entity or helper call
Did(op, idx, raised, calls, delay_ms, director) ==
    [op |-> op, idx |-> idx, raised |-> raised, calls |-> calls,
     delay_ms |-> delay_ms, director |-> director]

Sdk(fn, level255, transition) ==
    [kind |-> "sdk", fn |-> fn, level255 |-> level255, transition |-> transition]
Sleep == [kind |-> "sleep"]
RequestRefresh == [kind |-> "refresh"]

\* the keyword arguments a service call may pass to a light
ATTR_TRANSITION == "transition"
ATTR_BRIGHTNESS == "brightness"
KwargChoices == { EmptyDict, (ATTR_TRANSITION :> 2) @@ (ATTR_BRIGHTNESS :> 128) }

\* light.async_setup_entry: both coordinators are created and refreshed, then
\* one entity is added per item of the loop
LightSetupEntry(fetchNonDimmer, fetchDimmer) ==
    /\ HasKey(hassData, PlatformEntry)
    /\ ~coord["non_dimmer"].exists
    /\ LET items == EntryData[CONF_DIRECTOR_ALL_ITEMS]
           nd == Refreshed(NewCoordinator, UpdateMethod(fetchNonDimmer),
                           DirectorUpdateData(items, fetchNonDimmer))
           dm == Refreshed(NewCoordinator, UpdateMethod(fetchDimmer),
                           DirectorUpdateData(items, fetchDimmer))
           made == LightEntitiesFrom(ItemsOfCategory(items, LIGHTS_CATEGORY), 1,
                                     Unbound, << >>)
       IN  /\ coord' = [coord EXCEPT !["non_dimmer"] = nd, !["dimmer"] = dm]
           /\ lights' = made.entities
           /\ call' = Did("light.async_setup_entry", 0, made.raised, << >>, 0, 0)
    /\ UNCHANGED <<lifeVars, alarms, flowVars>>

\* alarm_control_panel.async_setup_entry
AlarmSetupEntry(fetch) ==
    /\ HasKey(hassData, PlatformEntry)
    /\ ~coord["alarm"].exists
    /\ LET items == EntryData[CONF_DIRECTOR_ALL_ITEMS]
           c == Refreshed(NewCoordinator, UpdateMethod(fetch),
                          DirectorUpdateDataMultiVariable(items, fetch))
           made == AlarmEntitiesFrom(ItemsOfCategory(items, SECURITY_CATEGORY), 1,
                                     Unbound, << >>)
       IN  /\ coord' = [coord EXCEPT !["alarm"] = c]
           /\ alarms' = made.entities
           /\ call' = Did("alarm_control_panel.async_setup_entry", 0, made.raised,
                          << >>, 0, 0)
    /\ UNCHANGED <<lifeVars, lights, flowVars>>

\* Control4AlarmControlPanel(hass, entry, coordinator, ...) constructed with the
\* arguments the signature of Control4Entity.__init__ declares
NewAlarmControlPanel(i) ==
    /\ HasKey(hassData, PlatformEntry)
    /\ coord["alarm"].exists
    /\ alarms = << >>
    /\ LET items == ItemsOfCategory(EntryData[CONF_DIRECTOR_ALL_ITEMS], SECURITY_CATEGORY)
       IN  /\ i \in 1..Len(items)
           /\ items[i].type = CONTROL4_ENTITY_TYPE /\ items[i].control = SECURITY_CATEGORY
           /\ LET found == FindParent(items, 1, items[i].parentId, Unbound)
                  made == Control4EntityInit("HomeAssistant", "alarm", items[i].name,
                              items[i].id, found.name, found.manufacturer,
                              found.model, items[i].parentId)
              IN  /\ alarms' = <<made.entity>>
                  /\ call' = Did("Control4AlarmControlPanel", items[i].id, made.raised,
                                 << >>, 0, 0)
    /\ UNCHANGED <<lifeVars, coord, lights, flowVars>>

\* a coordinator polls the director: coordinator.async_refresh()
Refresh(c, fetch) ==
    /\ HasKey(hassData, PlatformEntry)
    /\ coord[c].exists
    /\ fetch \in (IF c = "alarm" THEN AllAlarmFetches ELSE LightFetches)
    /\ LET items == EntryData[CONF_DIRECTOR_ALL_ITEMS]
           data == IF c = "alarm" THEN DirectorUpdateDataMultiVariable(items, fetch)
                   ELSE DirectorUpdateData(items, fetch)
       IN  coord' = [coord EXCEPT ![c] = Refreshed(@, UpdateMethod(fetch), data)]
    /\ call' = Did("async_refresh", 0, UpdateMethod(fetch), << >>, 0, 0)
    /\ UNCHANGED <<lifeVars, lights, alarms, flowVars>>

\* Control4Light.async_turn_on(**kwargs)
LightTurnOn(i, kwargs) ==
    /\ i \in 1..Len(lights)
    /\ LET light == lights[i]
           b == Brightness(light)
           reads == light.is_dimmer /\ ~HasKey(kwargs, ATTR_TRANSITION)
           transition_length ==
               IF light.is_dimmer THEN
                   IF HasKey(kwargs, ATTR_TRANSITION) THEN kwargs[ATTR_TRANSITION] * 1000
                   ELSE IF b.value = 0 THEN light.cold_start_transition_time * 1000
                   ELSE light.transition_time * 1000
               ELSE 0
           \* brightness = (kwargs[ATTR_BRIGHTNESS] / 255) * 100, kept times 255
           level255 == IF HasKey(kwargs, ATTR_BRIGHTNESS)
                       THEN kwargs[ATTR_BRIGHTNESS] * 100 ELSE 100 * 255
           sdk == IF light.is_dimmer THEN Sdk("rampToLevel", level255, transition_length)
                  ELSE Sdk("setLevel", 100 * 255, 0)
           delay == (IF transition_length = 0 THEN 1000 ELSE transition_length) + 700
       IN  call' = IF reads /\ b.raised # "None"
                   THEN Did("async_turn_on", light.idx, b.raised, << >>, 0, 0)
                   ELSE Did("async_turn_on", light.idx, "None",
                            <<sdk, Sleep, RequestRefresh>>, delay, light.director)
    /\ UNCHANGED <<lifeVars, coord, lights, alarms, flowVars>>

\* Control4Light.async_turn_off(**kwargs)
LightTurnOff(i, kwargs) ==
    /\ i \in 1..Len(lights)
    /\ LET light == lights[i]
           transition_length ==
               IF light.is_dimmer THEN
                   IF HasKey(kwargs, ATTR_TRANSITION) THEN kwargs[ATTR_TRANSITION] * 1000
                   ELSE light.cold_start_transition_time * 1000
               ELSE 0
           sdk == IF light.is_dimmer THEN Sdk("rampToLevel", 0, transition_length)
                  ELSE Sdk("setLevel", 0, 0)
           delay == (IF transition_length = 0 THEN 1500 ELSE transition_length) + 700
       IN  call' = Did("async_turn_off", light.idx, "None",
                       <<sdk, Sleep, RequestRefresh>>, delay, light.director)
    /\ UNCHANGED <<lifeVars, coord, lights, alarms, flowVars>>

AlarmCommands ==
    [async_alarm_arm_away |-> "setArmAway", async_alarm_arm_home |-> "setArmHome",
     async_alarm_disarm |-> "setDisarm"]

\* Control4AlarmControlPanel.async_alarm_arm_away / _arm_home / _disarm
AlarmCommand(i, command) ==
    /\ i \in 1..Len(alarms)
    /\ LET panel == alarms[i]
           c4_alarm == CreateApiObject(panel)
       IN  call' = IF c4_alarm.raised # "None"
                   THEN Did(command, panel.idx, c4_alarm.raised, << >>, 0, 0)
                   ELSE Did(command, panel.idx, "None",
                            <<Sdk(AlarmCommands[command], 0, 0)>>, 0, c4_alarm.director)
    /\ UNCHANGED <<lifeVars, coord, lights, alarms, flowVars>>

\* the host reads a light's state properties: is_on, then brightness
ReadLightState(i) ==
    /\ i \in 1..Len(lights)
    /\ LET on == IsOn(lights[i])
           b == Brightness(lights[i])
       IN  call' = Did("is_on", lights[i].idx,
                       IF on.raised # "None" THEN on.raised ELSE b.raised, << >>, 0, 0)
    /\ UNCHANGED <<lifeVars, coord, lights, alarms, flowVars>>

\* the host reads a panel's state property
ReadAlarmState(i) ==
    /\ i \in 1..Len(alarms)
    /\ LET state == AlarmState(alarms[i])
       IN  call' = Did("state", alarms[i].idx, state.raised, << >>, 0, 0)
                       @@ [value |-> state.value]
    /\ UNCHANGED <<lifeVars, coord, lights, alarms, flowVars>>

\* update_listener's async_setup_entry runs again while the entities live on:
\* a new account and director are stored in the entry's data
SetupAgain ==
    /\ HasKey(hassData, PlatformEntry)
    /\ nextId <= 1 + MaxReplacements
    /\ LET R == SetupEntry(Now, PlatformEntry, options[PlatformEntry],
                           EntryData[CONF_DIRECTOR_ALL_ITEMS], "none")
       IN  /\ Store(R)
           /\ last' = Called("setup", PlatformEntry, R, TRUE)
    /\ call' = Did("async_setup_entry", 0, "None", << >>, 0, 0)
    /\ UNCHANGED <<options, entryState, ul, coord, lights, alarms, flowVars>>

\* the inventories the director may report
ItemLists ==
    { <<LightDevice, DimmerLight, SwitchLight, PanelDevice, Panel>>,
      <<SwitchDevice, LightDevice, DimmerLight, PorchLight, Panel>>,
      <<PorchLight, SwitchDevice>> }

NoCall == Did("none", 0, "None", << >>, 0, 0)

PlatformIdle ==
    /\ coord = [c \in CoordinatorNames |-> NoCoordinator]
    /\ lights = << >>
    /\ alarms = << >>
    /\ call = NoCall

\* the entry has been set up: its data holds the account, the director, the
\* cached item list and the options
EntrySetUpWith(items) ==
    LET S0 == [data |-> EmptyDict, listeners |-> [e \in Entries |-> {}],
               devices |-> {}, nextId |-> 1]
        R == SetupEntry(S0, PlatformEntry, options[PlatformEntry], items, "none")
    IN  /\ hassData = R.data
        /\ listeners = R.listeners
        /\ devices = R.devices
        /\ nextId = R.nextId
        /\ last = Called("setup", PlatformEntry, R, TRUE)
        /\ entryState = [e \in Entries |->
                            IF e = PlatformEntry THEN "loaded" ELSE "not_loaded"]
        /\ ul = [e \in Entries |-> 0]

FlowIdle ==
    /\ flow = [type |-> "none"]
    /\ entries = << >>

PlatformInit ==
    /\ options \in [Entries -> UNION {OptionChoices(e) : e \in Entries}]
    /\ \A e \in Entries : options[e] \in OptionChoices(e)
    /\ DOMAIN options[PlatformEntry] \in {{}, {CONF_SCAN_INTERVAL, CONF_LIGHT_TRANSITION_TIME,
                                              CONF_LIGHT_COLD_START_TRANSITION_TIME}}
    /\ \E items \in ItemLists : EntrySetUpWith(items)
    /\ PlatformIdle
    /\ FlowIdle

PlatformNext ==
    \/ \E f1 \in LightFetches, f2 \in LightFetches : LightSetupEntry(f1, f2)
    \/ \E f \in AlarmFetches : AlarmSetupEntry(f)
    \/ \E i \in 1..5 : NewAlarmControlPanel(i)
    \/ \E c \in CoordinatorNames, f \in LightFetches \cup AlarmFetches : Refresh(c, f)
    \/ \E i \in 1..Len(lights), kwargs \in KwargChoices : LightTurnOn(i, kwargs)
    \/ \E i \in 1..Len(lights), kwargs \in KwargChoices : LightTurnOff(i, kwargs)
    \/ \E i \in 1..Len(alarms), command \in DOMAIN AlarmCommands : AlarmCommand(i, command)
    \/ \E i \in 1..Len(lights) : ReadLightState(i)
    \/ SetupAgain

SpecPlatform == PlatformInit /\ [][PlatformNext]_<<lifeVars, platVars, flowVars>>

-----------------------------------------------------------------------------
(* The alarm panel under every reading of its three variables *)

AlarmNext ==
    \/ \E f \in AllAlarmFetches : AlarmSetupEntry(f)
    \/ \E i \in 1..5 : NewAlarmControlPanel(i)
    \/ \E f \in AllAlarmFetches : Refresh("alarm", f)
    \/ \E i \in 1..Len(alarms), command \in DOMAIN AlarmCommands : AlarmCommand(i, command)
    \/ \E i \in 1..Len(alarms) : ReadAlarmState(i)

SpecAlarm == PlatformInit /\ [][AlarmNext]_<<lifeVars, platVars, flowVars>>

-----------------------------------------------------------------------------
(* get_items_of_category on every short item list *)

Keypad == Item(8, 0, 7, {"lights", "security"}, FALSE, "keypad", "Keypad", "", "")

ItemPool == {LightDevice, DimmerLight, SwitchDevice, Panel, Keypad}

Categories == {LIGHTS_CATEGORY, SECURITY_CATEGORY, "cameras"}

\* the lists of at most n items of the pool
ListsUpTo(n) == UNION {[1..k -> ItemPool] : k \in 0..n}

\* a platform calls get_items_of_category(hass, entry, category)
GetItemsOfCategory(category) ==
    /\ HasKey(hassData, PlatformEntry)
    /\ call' = [op |-> "get_items_of_category", category |-> category,
                cached |-> EntryData[CONF_DIRECTOR_ALL_ITEMS],
                result |-> ItemsOfCategory(EntryData[CONF_DIRECTOR_ALL_ITEMS], category)]
    /\ UNCHANGED <<lifeVars, coord, lights, alarms, flowVars>>

ItemsInit ==
    /\ options = [e \in Entries |-> EmptyDict]
    /\ \E items \in ListsUpTo(MaxItems) : EntrySetUpWith(items)
    /\ PlatformIdle
    /\ FlowIdle

ItemsNext == \E category \in Categories : GetItemsOfCategory(category)

SpecItems == ItemsInit /\ [][ItemsNext]_<<lifeVars, platVars, flowVars>>

-----------------------------------------------------------------------------
(* The user config flow, as the tests of the flow describe it *)

Hosts == {"1.1.1.1", "10.0.0.2"}
Usernames == {"test-username", "other-username"}
Passwords == {"test-password"}
CommonNames == {"control4_model_00AA00AA00AA", "control4_model_00BB00BB00BB"}

UserInputs == [host : Hosts, username : Usernames, password : Passwords]

\* a flow that creates the entry although the director cannot be reached
FlowResultIgnoringDirector(user_input, authenticated, connected, common_name) ==
    IF ~authenticated THEN
        [type |-> "form", errors |-> [base |-> "invalid_auth"]]
    ELSE
        [type |-> "create_entry", errors |-> EmptyDict, title |-> common_name,
         data |-> user_input @@ [controller_unique_id |-> common_name]]

\* the result of the user step for the submitted input
FlowResult(user_input, authenticated, connected, common_name) ==
    IF ~authenticated THEN
        [type |-> "form", errors |-> [base |-> "invalid_auth"]]
    ELSE IF ~connected THEN
        [type |-> "form", errors |-> [base |-> "cannot_connect"]]
    ELSE
        [type |-> "create_entry", errors |-> EmptyDict, title |-> common_name,
         data |-> user_input @@ [controller_unique_id |-> common_name]]

\* hass.config_entries.flow.async_init(DOMAIN, context={"source": "user"})
FlowStart ==
    /\ flow.type \in {"none", "create_entry"}
    /\ Len(entries) < MaxEntries
    /\ flow' = [type |-> "form", errors |-> EmptyDict, submitted |-> FALSE]
    /\ UNCHANGED <<entries, lifeVars, platVars>>

\* hass.config_entries.flow.async_configure(flow_id, user_input); the host
\* stores the created entry and sets it up
FlowConfigure(user_input, authenticated, connected, common_name) ==
    /\ flow.type = "form"
    /\ LET result == FlowResult(user_input, authenticated, connected, common_name)
           created == result.type = "create_entry"
       IN  /\ flow' = result @@ [submitted |-> TRUE, input |-> user_input,
                                 authenticated |-> authenticated,
                                 connected |-> connected, common_name |-> common_name,
                                 entriesBefore |-> Len(entries)]
           /\ entries' = IF created
                         THEN Append(entries, [title |-> result.title, data |-> result.data,
                                               setup_entry_calls |-> 1])
                         ELSE entries
    /\ UNCHANGED <<lifeVars, platVars>>

FlowInit == LifeInit /\ PlatformIdle /\ FlowIdle

FlowNext ==
    \/ FlowStart
    \/ \E user_input \in UserInputs, authenticated \in BOOLEAN, connected \in BOOLEAN,
          common_name \in CommonNames :
           FlowConfigure(user_input, authenticated, connected, common_name)

SpecFlow == FlowInit /\ [][FlowNext]_<<lifeVars, platVars, flowVars>>

-----------------------------------------------------------------------------
(* The lifecycle specification *)

Init == LifeInit /\ PlatformIdle /\ FlowIdle

Next ==
    \/ \E e \in Entries : \E fail \in SetupFailPoints(e) : Setup(e, fail)
    \/ \E e \in Entries, results \in UnloadResults : Unload(e, results)
    \/ \E e \in Entries : \E opts \in OptionChoices(e) : UpdateOptions(e, opts)
    \/ \E e \in Entries, results \in UnloadResults :
           \E fail \in SetupFailPoints(e) : UpdateListenerStep(e, results, fail)

vars == <<lifeVars, platVars, flowVars>>

Spec == Init /\ [][Next]_vars

-----------------------------------------------------------------------------
(* Properties of the lifecycle handlers *)

\* the handler the last call ran: async_setup_entry or async_unload_entry,
\* called by the host or awaited by update_listener
RanSetup(l) ==
    \/ l.op = "setup"
    \/ l.op = "update_listener" /\ l.awaited # << >> /\ l.awaited[Len(l.awaited)] = "setup"

RanUnload(l) ==
    \/ l.op = "unload"
    \/ l.op = "update_listener" /\ l.awaited # << >> /\ l.awaited[Len(l.awaited)] = "unload"

\* C3 as stated: a setup whose account-token request raises a client
\* connection error raises PlatformNotReady, registers no listener and no
\* device, forwards no platform setup and leaves hass.data[DOMAIN] exactly as
\* it was before the call.
C3_NoEffectAtAll ==
    [][ (RanSetup(last') /\ last'.outcome = "PlatformNotReady") =>
            /\ hassData' = hassData
            /\ listeners' = listeners
            /\ devices' = devices
            /\ last'.forwards = 0 ]_vars

\* C3 amended: such a setup raises PlatformNotReady, registers no listener and
\* no device, forwards no platform setup, and leaves hass.data[DOMAIN] as it
\* was before the call except that the entry id is mapped to an empty dict when
\* the entry had no data before (the setdefault of line 59).
C3_OnlyEmptyDictLeft ==
    [][ (RanSetup(last') /\ last'.outcome = "PlatformNotReady") =>
            /\ hassData' = IF HasKey(hassData, last'.entry) THEN hassData
                           ELSE Put(hassData, last'.entry, EmptyDict)
            /\ listeners' = listeners
            /\ devices' = devices
            /\ last'.forwards = 0 ]_vars

\* a failed token request has left an empty dict for an entry, next to the
\* full data of another entry
C3_Witness ==
    /\ RanSetup(last) /\ last.outcome = "PlatformNotReady"
    /\ HasKey(hassData, last.entry) /\ hassData[last.entry] = EmptyDict
    /\ \E o \in Entries \ {last.entry} :
           HasKey(hassData, o) /\ HasKey(hassData[o], CONF_DIRECTOR)

\* C5: when update_listener has completed it has awaited async_unload_entry and
\* then async_setup_entry, and the entry's stored scan interval, light
\* transition time and cold-start transition time are the values of the
\* entry's current options, or the default of each option that is absent.
C5_OptionsReloaded ==
    (last.op = "update_listener" /\ last.outcome = "None") =>
        LET e == last.entry IN
        /\ last.awaited = <<"unload", "setup">>
        /\ HasKey(hassData, e)
        /\ hassData[e][CONF_SCAN_INTERVAL] =
               Get(options[e], CONF_SCAN_INTERVAL, DEFAULT_SCAN_INTERVAL)
        /\ hassData[e][CONF_LIGHT_TRANSITION_TIME] =
               Get(options[e], CONF_LIGHT_TRANSITION_TIME, DEFAULT_LIGHT_TRANSITION_TIME)
        /\ hassData[e][CONF_LIGHT_COLD_START_TRANSITION_TIME] =
               Get(options[e], CONF_LIGHT_COLD_START_TRANSITION_TIME,
                   DEFAULT_LIGHT_COLD_START_TRANSITION_TIME)

\* update_listener has completed for options that set the scan interval and
\* leave both transition times to their defaults
C5_Witness ==
    /\ last.op = "update_listener" /\ last.outcome = "None"
    /\ DOMAIN options[last.entry] = {CONF_SCAN_INTERVAL}
    /\ hassData[last.entry][CONF_SCAN_INTERVAL] = 10
    /\ hassData[last.entry][CONF_LIGHT_TRANSITION_TIME] = DEFAULT_LIGHT_TRANSITION_TIME

-----------------------------------------------------------------------------
(* Properties of get_items_of_category *)

\* C1: get_items_of_category returns exactly the items of the cached list that
\* have a "categories" field containing the category, in their original order
\* and each once per occurrence; items without the field are not returned, and
\* the cached list is as it was before the call.
C1_ItemsOfCategory ==
    call.op = "get_items_of_category" =>
        /\ call.result = SelectSeq(call.cached, LAMBDA item :
               HasKey(item, "categories") /\ call.category \in item["categories"])
        /\ \A i \in 1..Len(call.result) : HasKey(call.result[i], "categories")
        /\ EntryData[CONF_DIRECTOR_ALL_ITEMS] = call.cached

\* a call has returned two of three cached items and left out one that has no
\* "categories" field
C1_Witness ==
    /\ call.op = "get_items_of_category"
    /\ Len(call.cached) = 3 /\ Len(call.result) = 2
    /\ \E i \in 1..3 : ~HasKey(call.cached[i], "categories")
    /\ call.result[1] # call.result[2]

-----------------------------------------------------------------------------
(* Properties of the platforms and entities *)

CommandOps == {"async_turn_on", "async_turn_off"} \cup DOMAIN AlarmCommands

Kinds(calls) == [i \in 1..Len(calls) |-> calls[i].kind]

\* C2: every command method of every entity (light turn on and off; alarm arm
\* away, arm home and disarm) performs exactly one vendor SDK call, then the
\* delay, then exactly one coordinator refresh request, in that order.
C2_SdkDelayRefresh ==
    call.op \in CommandOps => Kinds(call.calls) = <<"sdk", "sleep", "refresh">>

\* C4: a refresh whose fetch raises C4Exception ends as UpdateFailed, never as
\* the vendor's exception, and every entity is unavailable exactly while the
\* last refresh of its coordinator failed and available while it succeeded.
C4_AvailableFollowsRefresh ==
    /\ \A c \in CoordinatorNames : coord[c].lastRefresh \in {"none", "ok", "UpdateFailed"}
    /\ call.op = "async_refresh" => call.raised \in {"ok", "UpdateFailed"}
    /\ \A i \in 1..Len(lights) :
           /\ coord[lights[i].coordinator].lastRefresh \in {"ok", "UpdateFailed"}
           /\ Available(lights[i]) <=> coord[lights[i].coordinator].lastRefresh = "ok"
    /\ \A i \in 1..Len(alarms) :
           /\ coord[alarms[i].coordinator].lastRefresh \in {"ok", "UpdateFailed"}
           /\ Available(alarms[i]) <=> coord[alarms[i].coordinator].lastRefresh = "ok"

\* a refresh has failed after an earlier one succeeded: a light whose
\* coordinator holds data is unavailable, while another light is available
C4_Witness ==
    /\ call.op = "async_refresh" /\ call.raised = "UpdateFailed"
    /\ \E i, j \in 1..Len(lights) :
           /\ coord[lights[i].coordinator].hasData
           /\ ~Available(lights[i])
           /\ Available(lights[j])

\* C7: every alarm panel command is sent through an API object built at the
\* time of the command from the director currently stored in the entry's data,
\* and building that object never fails.
C7_LatestDirector ==
    call.op \in DOMAIN AlarmCommands =>
        /\ call.raised = "None"
        /\ Kinds(call.calls) = <<"sdk">>
        /\ call.director = EntryData[CONF_DIRECTOR]

\* C8: whenever a light or alarm entity exists and its state properties are
\* read, its coordinator holds data with an entry for the entity's item id,
\* also when the initial refresh of the platform setup failed.
C8_DataBeforeEntities ==
    /\ \A i \in 1..Len(lights) :
           /\ coord[lights[i].coordinator].hasData
           /\ HasKey(coord[lights[i].coordinator].data, lights[i].idx)
    /\ \A i \in 1..Len(alarms) :
           /\ coord[alarms[i].coordinator].hasData
           /\ HasKey(coord[alarms[i].coordinator].data, alarms[i].idx)
    /\ call.op = "is_on" => call.raised = "None"

\* C9: the light platform setup adds exactly one light entity for each item of
\* category "lights" whose type is 7 and none for another item; a dimmer is
\* bound to the dimmer coordinator and any other light to the non-dimmer one;
\* and the device name, manufacturer and model of each entity are those of
\* the item whose id is the parentId of the entity's item.
C9_LightEntities ==
    coord["non_dimmer"].exists =>
        LET items == EntryData[CONF_DIRECTOR_ALL_ITEMS]
            wanted == SelectSeq(items, LAMBDA item :
                          /\ HasKey(item, "categories")
                          /\ LIGHTS_CATEGORY \in item["categories"]
                          /\ item.type = 7)
        IN  /\ Len(lights) = Len(wanted)
            /\ \A i \in 1..Len(lights) :
                   /\ lights[i].idx = wanted[i].id
                   /\ lights[i].coordinator =
                          (IF wanted[i].capabilities.dimmer THEN "dimmer" ELSE "non_dimmer")
                   /\ \E j \in 1..Len(items) :
                          /\ items[j].id = wanted[i].parentId
                          /\ lights[i].device_name = items[j].name
                          /\ lights[i].device_manufacturer = items[j].manufacturer
                          /\ lights[i].device_model = items[j].model

-----------------------------------------------------------------------------
(* Properties of the options-update listener *)

\* C12: after any sequence of setups, options updates and unloads, successful
\* or failed, every entry has exactly one registered options-update listener
\* while it has a key in hass.data[DOMAIN] and none while it has not, and no
\* remover is invoked a second time for the same registration.  Registration
\* ids are never reused and only a remover takes one out of the list, so a
\* remover whose registration is already gone (the call that raises
\* ValueError) is a remover invoked a second time.
C12_OneListenerWhileLoaded ==
    /\ \A e \in Entries :
          /\ HasKey(hassData, e) => Cardinality(listeners[e]) = 1
          /\ ~HasKey(hassData, e) => listeners[e] = {}
    /\ ~(RanUnload(last) /\ last.outcome = "ValueError")

-----------------------------------------------------------------------------
(* Properties of the alarm panel's state *)

AlarmStates == {STATE_ALARM_DISARMED, STATE_ALARM_ARMED_HOME, STATE_ALARM_ARMED_AWAY}

\* the panel whose state was read last, and what its coordinator holds for it
ReadPanel == CHOOSE panel \in {alarms[i] : i \in 1..Len(alarms)} : panel.idx = call.idx
HoldsReading(panel) ==
    coord[panel.coordinator].hasData /\ HasKey(coord[panel.coordinator].data, panel.idx)
HeldReading(panel) == coord[panel.coordinator].data[panel.idx]

\* C11 as stated: whenever the three variables of the panel are held, the state
\* read is disarmed, armed_home or armed_away: disarmed when DISARMED_STATE is 1,
\* otherwise armed_home when HOME_STATE is 1, otherwise armed_away when
\* AWAY_STATE is 1
C11_AlwaysOneOfThree ==
    (call.op = "state" /\ HoldsReading(ReadPanel)) =>
        LET r == HeldReading(ReadPanel)
        IN  /\ call.raised = "None"
            /\ call.value \in AlarmStates
            /\ r.DISARMED_STATE = 1 => call.value = STATE_ALARM_DISARMED
            /\ (r.DISARMED_STATE # 1 /\ r.HOME_STATE = 1) =>
                   call.value = STATE_ALARM_ARMED_HOME
            /\ (r.DISARMED_STATE # 1 /\ r.HOME_STATE # 1 /\ r.AWAY_STATE = 1) =>
                   call.value = STATE_ALARM_ARMED_AWAY

\* C11 amended: whenever the three variables of the panel are held, the state
\* read is disarmed when DISARMED_STATE is 1, otherwise armed_home when
\* HOME_STATE is 1, otherwise armed_away when AWAY_STATE is 1, and it is None
\* (no state) when none of the three is 1
C11_OneOfThreeOrNone ==
    (call.op = "state" /\ HoldsReading(ReadPanel)) =>
        LET r == HeldReading(ReadPanel)
        IN  /\ call.raised = "None"
            /\ r.DISARMED_STATE = 1 => call.value = STATE_ALARM_DISARMED
            /\ (r.DISARMED_STATE # 1 /\ r.HOME_STATE = 1) =>
                   call.value = STATE_ALARM_ARMED_HOME
            /\ (r.DISARMED_STATE # 1 /\ r.HOME_STATE # 1 /\ r.AWAY_STATE = 1) =>
                   call.value = STATE_ALARM_ARMED_AWAY
            /\ (r.DISARMED_STATE # 1 /\ r.HOME_STATE # 1 /\ r.AWAY_STATE # 1) <=>
                   call.value = "None"

\* a panel whose three variables are all 0 has had its state read
C11_Witness ==
    /\ call.op = "state"
    /\ HoldsReading(ReadPanel)
    /\ HeldReading(ReadPanel) = ReadingOf("none_set")
    /\ call.value = "None"

-----------------------------------------------------------------------------
(* Properties of the config flow *)

\* C6: the user flow creates a config entry exactly when the authentication
\* and the director connection both succeed; the entry's title is then the
\* controller's common name, its data the submitted host, username and password
\* plus controller_unique_id set to that name, and the entry is set up once.
\* A failed authentication shows the form again with base = invalid_auth, a
\* failed director connection after a successful authentication shows it with
\* base = cannot_connect, and neither creates an entry.
C6_ConfigFlow ==
    (flow.type # "none" /\ flow.submitted) =>
        /\ (flow.type = "create_entry") <=> (flow.authenticated /\ flow.connected)
        /\ flow.type = "create_entry" =>
               /\ flow.title = flow.common_name
               /\ flow.data = [host |-> flow.input.host,
                               username |-> flow.input.username,
                               password |-> flow.input.password,
                               controller_unique_id |-> flow.common_name]
               /\ Len(entries) = flow.entriesBefore + 1
               /\ entries[Len(entries)].data = flow.data
               /\ entries[Len(entries)].setup_entry_calls = 1
        /\ ~flow.authenticated =>
               /\ flow.type = "form" /\ flow.errors = [base |-> "invalid_auth"]
               /\ Len(entries) = flow.entriesBefore
        /\ (flow.authenticated /\ ~flow.connected) =>
               /\ flow.type = "form" /\ flow.errors = [base |-> "cannot_connect"]
               /\ Len(entries) = flow.entriesBefore

\* the director could not be reached after a successful authentication, in a
\* flow started after another flow created an entry
C6_Witness ==
    /\ flow.type = "form" /\ flow.submitted
    /\ flow.authenticated /\ ~flow.connected
    /\ flow.errors = [base |-> "cannot_connect"]
    /\ Len(entries) = 1

====
